---- MODULE Spec2Model ----
(***************************************************************************)
(* Model of ImapArchiver (src/imap_archiver.py): one archiver instance     *)
(* driving an IMAP connection.  A mailbox name and a message set are       *)
(* sequences of tokens (one-character strings, or an atom such as          *)
(* "INBOX"), so that quoting, formatting and parsing are real operations.  *)
(* An integer date is a day number counted from 1 January 2021.            *)
(***************************************************************************)
EXTENDS Integers, Sequences, FiniteSets, TLC

\* ------------------------------------------------------------------ bounds
\* Message identifiers of a mailbox are 1..MaxUid.
MaxUid == 3
\* Number of archive_mailbox invocations made on the instance.
MaxRuns == 2
\* Largest identifier handed to build_message_set when checked on its own.
MaxCodecUid == 11
\* Longest mailbox name, in tokens, handed to build_archive_mailbox when checked
\* on its own.
MaxNameLen == 3

UIDs == 1..MaxUid

\* Values of the max_messages constructor argument that are explored.
BatchSizes == {2, 3}

\* ------------------------------------------------------------------ names
INBOX == <<"INBOX">>
Sent == <<"Sent">>
\* The source mailboxes handed to archive_mailbox.
Mailboxes == {INBOX, Sent}

\* Outcome of a call on the connection: the status it returns, or "EXC" when
\* the client library raises instead of returning.
Statuses == {"OK", "NO", "EXC"}

\* The same for the calls whose exception archive_mailbox lets through exactly as
\* it lets through its own raise after a status other than OK (search, fetch,
\* move): the two ends are one outcome, "NO".
Replies == {"OK", "NO"}

Range(s) == {s[i] : i \in 1..Len(s)}

Last(s) == s[Len(s)]

RECURSIVE Join(_, _)
\* str.join
Join(sep, parts) ==
    IF parts = <<>> THEN <<>>
    ELSE IF Len(parts) = 1 THEN parts[1]
    ELSE parts[1] \o sep \o Join(sep, Tail(parts))

Digits == <<"0", "1", "2", "3", "4", "5", "6", "7", "8", "9">>

RECURSIVE Str(_)
\* str(n) / "%s" % n / "%d" % n of a natural number: its decimal digits.
Str(n) ==
    IF n < 10 THEN <<Digits[n + 1]>>
    ELSE Str(n \div 10) \o <<Digits[(n % 10) + 1]>>

DigitValue(c) == CHOOSE d \in 0..9 : Digits[d + 1] = c

RECURSIVE ParseInt(_)
\* int(token) of a string of decimal digits.
ParseInt(s) ==
    IF Len(s) = 1 THEN DigitValue(s[1])
    ELSE 10 * ParseInt(SubSeq(s, 1, Len(s) - 1)) + DigitValue(s[Len(s)])

RECURSIVE Split(_, _)
\* str.split(sep) for a one-token separator.
Split(s, sep) ==
    IF \A i \in 1..Len(s) : s[i] # sep THEN <<s>>
    ELSE LET k == CHOOSE i \in 1..Len(s) :
                      s[i] = sep /\ \A j \in 1..(i - 1) : s[j] # sep
         IN <<SubSeq(s, 1, k - 1)>> \o Split(SubSeq(s, k + 1, Len(s)), sep)

\* ------------------------------------------------------- build_message_set
\* What build_message_set ends with on an empty sequence: len(None) raises.
TypeError == <<"TypeError">>

RECURSIVE BuildSetsGuarded(_, _, _)
\* BuildSets that appends the last set only when there is one, so that an
\* empty input gives no sets and the join gives the empty string.
BuildSetsGuarded(message_uids, sets, set) ==
    IF message_uids = <<>> THEN (IF set = <<>> THEN sets ELSE Append(sets, set))
    ELSE LET message_uid == Head(message_uids) IN
         IF set = <<>>
         THEN BuildSetsGuarded(Tail(message_uids), sets, <<message_uid>>)
         ELSE IF set[Len(set)] = message_uid - 1
         THEN BuildSetsGuarded(Tail(message_uids), sets, Append(set, message_uid))
         ELSE BuildSetsGuarded(Tail(message_uids), Append(sets, set), <<message_uid>>)

RECURSIVE BuildSets(_, _, _)
\* The loop of build_message_set.  `set` is <<>> while the code's set is None
\* (the code's set is never an empty list).
BuildSets(message_uids, sets, set) ==
    IF message_uids = <<>> THEN Append(sets, set)
    ELSE LET message_uid == Head(message_uids) IN
         IF set = <<>>
         THEN BuildSets(Tail(message_uids), sets, <<message_uid>>)
         ELSE IF set[Len(set)] = message_uid - 1
         THEN BuildSets(Tail(message_uids), sets, Append(set, message_uid))
         ELSE BuildSets(Tail(message_uids), Append(sets, set), <<message_uid>>)

\* FormatSet with the test len(x) > 2: a run of two loses its last identifier.
FormatSetLongRunsOnly(x) ==
    IF Len(x) > 2 THEN Str(x[1]) \o <<":">> \o Str(x[Len(x)]) ELSE Str(x[1])

\* "%s:%s" % (x[0], x[-1]) if len(x) > 1 else str(x[0])
FormatSet(x) ==
    IF Len(x) > 1 THEN Str(x[1]) \o <<":">> \o Str(x[Len(x)]) ELSE Str(x[1])

build_message_set(message_uids) ==
    LET sets == BuildSets(message_uids, <<>>, <<>>) IN
    IF \E i \in 1..Len(sets) : sets[i] = <<>> THEN TypeError
    ELSE Join(<<",">>, [i \in 1..Len(sets) |-> FormatSet(sets[i])])

\* The identifiers a server reads from a message set: split on commas, and
\* each part on the colon.
ExpandPart(p) ==
    LET b == Split(p, ":") IN
    IF Len(b) = 1 THEN {ParseInt(b[1])} ELSE ParseInt(b[1])..ParseInt(b[2])

Expand(message_set) ==
    LET parts == Split(message_set, ",") IN
    UNION {ExpandPart(parts[i]) : i \in 1..Len(parts)}

\* ---------------------------------------------------- build_archive_mailbox
archive_mailbox_name == <<"Archives">>

RECURSIVE RemoveFirst(_, _)
\* str.replace(pat, "", 1): the first occurrence only.
RemoveFirst(s, pat) ==
    IF Len(s) < Len(pat) THEN s
    ELSE IF SubSeq(s, 1, Len(pat)) = pat
    THEN SubSeq(s, Len(pat) + 1, Len(s))
    ELSE <<Head(s)>> \o RemoveFirst(Tail(s), pat)

RECURSIVE RemoveAll(_, _)
\* str.replace(pat, ""): every occurrence, scanning left to right.
RemoveAll(s, pat) ==
    IF Len(s) < Len(pat) THEN s
    ELSE IF SubSeq(s, 1, Len(pat)) = pat
    THEN RemoveAll(SubSeq(s, Len(pat) + 1, Len(s)), pat)
    ELSE <<Head(s)>> \o RemoveAll(Tail(s), pat)

\* date.year of a day number (years of 365 days).
YearOf(day) == 2021 + (day \div 365)

build_archive_mailbox(date, mailbox) ==
    LET mailbox_name ==
            archive_mailbox_name \o <<".">> \o Str(YearOf(date)) \o <<".">> \o mailbox
    IN RemoveAll(mailbox_name, <<".", "INBOX">>)

quote_mailbox(mailbox_name) == <<"\"">> \o mailbox_name \o <<"\"">>

RECURSIVE Strip(_, _)
\* str.strip(ch): leading and trailing occurrences of ch removed.
Strip(s, ch) ==
    IF s = <<>> THEN s
    ELSE IF Head(s) = ch THEN Strip(Tail(s), ch)
    ELSE IF s[Len(s)] = ch THEN Strip(SubSeq(s, 1, Len(s) - 1), ch)
    ELSE s

\* ---------------------------------------------------- get_mailboxes_matching
RECURSIVE get_mailboxes_listed(_)
\* The loop over the LIST response without the test of the flags.
get_mailboxes_listed(mailboxes) ==
    IF mailboxes = <<>> THEN <<>>
    ELSE <<Strip(Head(mailboxes).name, "\"")>> \o get_mailboxes_listed(Tail(mailboxes))

RECURSIVE get_mailboxes_matching(_)
\* The loop over the LIST response; an entry is its flags and its name as sent.
get_mailboxes_matching(mailboxes) ==
    IF mailboxes = <<>> THEN <<>>
    ELSE LET mailbox == Head(mailboxes) IN
         IF "Noselect" \notin mailbox.flags
         THEN <<Strip(mailbox.name, "\"")>> \o get_mailboxes_matching(Tail(mailboxes))
         ELSE get_mailboxes_matching(Tail(mailboxes))

Archive2021 == archive_mailbox_name \o <<".">> \o Str(2021)
Archive2022 == archive_mailbox_name \o <<".">> \o Str(2022)

\* The LIST responses the server may give at construction.
Listings ==
    { <<>>,
      << [flags |-> {"HasChildren"}, name |-> quote_mailbox(archive_mailbox_name)],
         [flags |-> {"Noselect", "HasChildren"}, name |-> quote_mailbox(Archive2021)],
         [flags |-> {"HasNoChildren"}, name |-> quote_mailbox(Archive2022)] >> }

\* ------------------------------------------------------------- the server
\* The clock snapshot taken at construction: a day and the seconds into it.
Now0 == [day |-> 1200, secs |-> 4711]

\* now - timedelta(days): the time of day is kept.
MinusDays(t, days) == [day |-> t.day - days, secs |-> t.secs]

\* strftime("%d-%b-%Y"): the day, without the time of day.
FormatDay(t) == t.day

\* Internal date of each message in the server's store.  INBOX holds old
\* messages of two years; Sent holds messages around the cutoff of Now0 and a
\* max_age of 365: 367, 366, 365, ... days before the snapshot.
InternalDate(mb, uid) ==
    IF mb = INBOX
    THEN (IF uid % 2 = 1 THEN 100 + uid ELSE 500 + uid)
    ELSE 832 + uid

\* SEARCH BEFORE <date>: messages whose internal date is earlier than the date.
SearchBefore(uids, mb, day) == {u \in uids : InternalDate(mb, u) < day}

\* Every order of the elements of a set.
Perms(S) ==
    {f \in [1..Cardinality(S) -> S] : \A i, j \in 1..Cardinality(S) : f[i] = f[j] => i = j}

\* A response line of FETCH: matching the pattern, with its UID and internal
\* date, or not matching it.
BadLine == [bad |-> TRUE, uid |-> 0, date |-> 0]

Line(mb, uid) == [bad |-> FALSE, uid |-> uid, date |-> InternalDate(mb, uid)]

Lines(mb, uids) == {BadLine} \cup {Line(mb, u) : u \in uids}

\* The FETCH responses: at least one item (the client hands back a list holding
\* None when the server sent no data, which no pattern matches), at most one
\* item per requested identifier, in any order and for any identifier of a
\* message the mailbox holds.
FetchResponses(mb, uids, n) == UNION {[1..k -> Lines(mb, uids)] : k \in 1..n}

\* -------------------------------------------------------------- the state
VARIABLES
    archive_mailboxes,  \* self.archive_mailboxes
    max_messages,       \* self.max_messages
    max_age,            \* self.max_age
    now,                \* self.now
    pc,                 \* position in archive_mailbox: idle, search, fetch, archive
    mailbox,            \* argument of the current archive_mailbox call
    message_uids,       \* message_uids of archive_mailbox
    start,              \* loop variable of archive_mailbox
    messages,           \* result of get_messages for the current batch
    groups,             \* runs of the groupby iterator not yet archived
    result,             \* how the last archive_mailbox call ended: none, ok, error
    err,                \* which raise ended it
    log,                \* calls made on the connection by the current invocation
    history,            \* finished invocations (the last two in full)
    creates,            \* all create requests of the instance, in order
    store,              \* server: identifiers in each source mailbox
    move_count,         \* per message, number of successful moves that carried it
    faithful,           \* every parsed fetch response had one line per requested id
    listed,             \* the LIST response of construction
    msgset_in,          \* argument of the last build_message_set call
    msgset_out,         \* its result
    named_date,         \* date argument of a lone build_archive_mailbox call
    named_mailbox,      \* its mailbox argument
    named_out           \* its result

vars == <<archive_mailboxes, max_messages, max_age, now, pc, mailbox, message_uids,
          start, messages, groups, result, err, log, history, creates, store,
          move_count, faithful, listed, msgset_in, msgset_out, named_date,
          named_mailbox, named_out>>

\* What no step of archive_mailbox changes.
config == <<max_messages, max_age, now, listed, named_date, named_mailbox, named_out>>

\* An entry of log.
Call(op, name, uids, set, status) ==
    [op |-> op, name |-> name, uids |-> uids, set |-> set, status |-> status,
     readonly |-> FALSE, malformed |-> 0, honest |-> FALSE]

Init ==
    /\ listed \in Listings
    /\ archive_mailboxes = get_mailboxes_matching(listed)
    /\ max_messages \in BatchSizes
    /\ max_age = 365
    /\ now = Now0
    /\ pc = "idle"
    /\ mailbox = <<>>
    /\ message_uids = <<>>
    /\ start = 0
    /\ messages = <<>>
    /\ groups = <<>>
    /\ result = "none"
    /\ err = "none"
    /\ log = <<>>
    /\ history = <<>>
    /\ creates = <<>>
    /\ store = [mb \in Mailboxes |-> UIDs]
    /\ move_count = [mb \in Mailboxes |-> [u \in UIDs |-> 0]]
    /\ faithful = TRUE
    /\ msgset_in = <<>>
    /\ msgset_out = <<>>
    /\ named_date = 0
    /\ named_mailbox = <<>>
    /\ named_out = <<>>

\* archive_mailbox ends: by return (ok) or by an exception reaching the caller.
\* What is kept of the finished invocations: how many there were, and the
\* mailbox and the end of the last two.
Forget(h) ==
    [i \in 1..Len(h) |->
        IF i + 2 > Len(h) THEN h[i] ELSE [mailbox |-> <<>>, result |-> "past"]]

EndsFor(mb, how, why) ==
    /\ pc' = "idle"
    /\ result' = how
    /\ err' = why
    /\ history' = Forget(Append(history, [mailbox |-> mb, result |-> how]))

Ends(how, why) == EndsFor(mailbox, how, why)

Continues(at) ==
    /\ pc' = at
    /\ result' = "none"
    /\ err' = "none"
    /\ history' = history

\* The status tests that follow the calls on the connection (type != "OK"), by
\* call.
\* SelectOK that takes every returned status for a success.
SelectOKAlways(type) == TRUE

SelectOK(type) == type = "OK"

SearchOK(type) == type = "OK"

FetchOK(type) == type = "OK"

\* MoveOK that takes every status for a success.
MoveOKAlways(type) == TRUE

MoveOK(type) == type = "OK"

\* The read-only argument select_mailbox hands to connection.select.
SelectReadonly == TRUE

\* archive_mailbox(mb), up to the return of select_mailbox.
Select(mb) ==
    /\ pc = "idle"
    /\ Len(history) < MaxRuns
    /\ \E st \in Statuses :
        /\ log' = << [Call("select", quote_mailbox(mb), <<>>, <<>>, st)
                        EXCEPT !.readonly = SelectReadonly] >>
        /\ mailbox' = mb
        /\ IF st = "EXC" THEN EndsFor(mb, "error", "select raised")
           ELSE IF ~SelectOK(st) THEN EndsFor(mb, "error", "select")
           ELSE Continues("search")
    /\ message_uids' = <<>>
    /\ start' = 0
    /\ messages' = <<>>
    /\ groups' = <<>>
    /\ msgset_in' = <<>>
    /\ msgset_out' = <<>>
    /\ UNCHANGED <<archive_mailboxes, config, creates, store, move_count, faithful>>

\* The date of the BEFORE query of get_message_uids.
SearchQuery(t, age) == FormatDay(MinusDays(t, age + 1))

\* data[0].split(): the tokens between the blanks, none for an empty line.
SplitBlanks(line) == IF line = <<>> THEN <<>> ELSE Split(line, " ")

\* list(map(int, data[0].split())), sorted.
SortUids(line) ==
    LET tokens == SplitBlanks(line) IN
    SortSeq([i \in 1..Len(tokens) |-> ParseInt(tokens[i])], LAMBDA a, b : a < b)

\* HasBatch with the bound taken one short: a last batch of one is left out.
HasBatchSkipsLast(at, len) == at + 1 < len

\* range(0, len, max_messages) has a value at or after `at`.
HasBatch(at, len) == at < len

\* AfterSearch without the test of the empty list and with a loop whose body
\* runs before its range is tested.
AfterSearchAlwaysFetch(uids) == "fetch"

\* What archive_mailbox does with the search result: the test of the empty list
\* and the first evaluation of the loop's range.
AfterSearch(uids) ==
    IF uids = <<>> THEN "return"
    ELSE IF HasBatch(0, Len(uids)) THEN "fetch" ELSE "return"

\* get_message_uids, and archive_mailbox up to the loop.  On a status other than
\* OK the raise statement names a variable the method does not have, so the
\* exception that ends archive_mailbox is a NameError: an error all the same.
Search ==
    /\ pc = "search"
    /\ LET query == SearchQuery(now, max_age) IN
       \E st \in Replies :
        /\ log' = Append(log, Call("search", <<>>, <<>>, Str(query), st))
        /\ IF ~SearchOK(st)
           THEN /\ Ends("error", "search")
                /\ message_uids' = message_uids
           ELSE \E order \in Perms(SearchBefore(store[mailbox], mailbox, query)) :
                LET data == Join(<<" ">>, [i \in 1..Len(order) |-> Str(order[i])]) IN
                /\ message_uids' = SortUids(data)
                /\ IF AfterSearch(message_uids') = "return"
                   THEN Ends("ok", "none")
                   ELSE Continues("fetch")
    /\ start' = 0
    /\ UNCHANGED <<archive_mailboxes, config, mailbox, messages, groups, creates, store,
                   move_count, faithful, msgset_in, msgset_out>>

Min(a, b) == IF a < b THEN a ELSE b

\* Slice whose end is one position too far, so that consecutive slices overlap.
SliceInclusive(uids, at, n) == SubSeq(uids, at + 1, Min(at + n + 1, Len(uids)))

\* message_uids[start:start+max_messages]
Slice(uids, at, n) == SubSeq(uids, at + 1, Min(at + n, Len(uids)))

\* Position of the first line that does not match the pattern, 0 when all do.
FirstBad(data) ==
    IF \E i \in 1..Len(data) : data[i].bad
    THEN CHOOSE i \in 1..Len(data) : data[i].bad /\ \A j \in 1..(i - 1) : ~data[j].bad
    ELSE 0

RECURSIVE ParseLinesSkip(_, _, _)
\* ParseLines that skips a line that does not match instead of raising.
ParseLinesSkip(data, mb, t) ==
    IF data = <<>> THEN [raised |-> FALSE, messages |-> <<>>]
    ELSE LET item == Head(data)
             rest == ParseLinesSkip(Tail(data), mb, t)
         IN IF item.bad THEN rest
            ELSE [raised |-> FALSE,
                  messages |-> << [uid |-> item.uid,
                                   date |-> item.date,
                                   age |-> t.day - item.date,
                                   mailbox |-> build_archive_mailbox(item.date, mb)] >>
                               \o rest.messages]

RECURSIVE ParseLines(_, _, _)
\* The loop of get_messages: a line that does not match raises.
ParseLines(data, mb, t) ==
    IF data = <<>> THEN [raised |-> FALSE, messages |-> <<>>]
    ELSE LET item == Head(data) IN
         IF item.bad THEN [raised |-> TRUE, messages |-> <<>>]
         ELSE LET rest == ParseLines(Tail(data), mb, t) IN
              [raised |-> rest.raised,
               messages |-> IF rest.raised THEN <<>>
                            ELSE << [uid |-> item.uid,
                                     date |-> item.date,
                                     age |-> t.day - item.date,
                                     mailbox |-> build_archive_mailbox(item.date, mb)] >>
                                 \o rest.messages]

\* Grouping that takes the key of the first message for the whole batch.
GroupByFirstKey(msgs) ==
    IF msgs = <<>> THEN <<>>
    ELSE << [mailbox |-> msgs[1].mailbox, uids |-> [i \in 1..Len(msgs) |-> msgs[i].uid]] >>

RECURSIVE GroupByMerged(_)
\* Grouping by key over the whole batch: messages of one target are put in one
\* group even when other targets lie between them.
GroupByMerged(msgs) ==
    IF msgs = <<>> THEN <<>>
    ELSE LET Same(m) == m.mailbox = msgs[1].mailbox
             Other(m) == m.mailbox # msgs[1].mailbox
             same == SelectSeq(msgs, Same)
         IN << [mailbox |-> msgs[1].mailbox,
                uids |-> [i \in 1..Len(same) |-> same[i].uid]] >>
            \o GroupByMerged(SelectSeq(msgs, Other))

RECURSIVE GroupBy(_)
\* itertools.groupby(messages, key=mailbox) with the uid list of each group.
GroupBy(msgs) ==
    IF msgs = <<>> THEN <<>>
    ELSE LET rest == GroupBy(Tail(msgs)) IN
         IF rest # <<>> /\ rest[1].mailbox = msgs[1].mailbox
         THEN << [mailbox |-> msgs[1].mailbox, uids |-> <<msgs[1].uid>> \o rest[1].uids] >>
              \o Tail(rest)
         ELSE << [mailbox |-> msgs[1].mailbox, uids |-> <<msgs[1].uid>>] >> \o rest

\* Advance that goes on to the next batch after the first group of a batch.
AdvanceFirstGroupOnly(remaining) ==
    /\ start' = start + max_messages
    /\ IF HasBatch(start + max_messages, Len(message_uids))
       THEN Continues("fetch")
       ELSE Ends("ok", "none")

\* After a batch's groups (first those in `remaining`): the next group, the
\* next batch, or the end of archive_mailbox.
Advance(remaining) ==
    IF remaining # <<>>
    THEN Continues("archive") /\ start' = start
    ELSE /\ start' = start + max_messages
         /\ IF HasBatch(start + max_messages, Len(message_uids))
            THEN Continues("fetch")
            ELSE Ends("ok", "none")

IsPermutation(s, t) ==
    /\ Len(s) = Len(t)
    /\ Range(s) = Range(t)
    /\ Cardinality(Range(s)) = Len(s)

\* One turn of the loop of archive_mailbox up to the groupby: get_messages.
Fetch ==
    /\ pc = "fetch"
    /\ LET message_uid_row == Slice(message_uids, start, max_messages)
           message_set == build_message_set(message_uid_row)
       IN
       /\ msgset_in' = message_uid_row
       /\ msgset_out' = message_set
       /\ IF message_set = TypeError
          THEN /\ Ends("error", "build_message_set")
               /\ UNCHANGED <<log, messages, groups, faithful, start>>
          ELSE \E st \in Replies :
               IF ~FetchOK(st)
               THEN /\ log' = Append(log, Call("fetch", <<>>, message_uid_row, message_set, st))
                    /\ Ends("error", "fetch")
                    /\ UNCHANGED <<messages, groups, faithful, start>>
               ELSE \E data \in FetchResponses(mailbox, store[mailbox], Len(message_uid_row)) :
                    LET parsed == ParseLines(data, mailbox, now)
                        honest == IsPermutation([i \in 1..Len(data) |-> data[i].uid],
                                                message_uid_row)
                    IN
                    /\ log' = Append(log,
                          [Call("fetch", <<>>, message_uid_row, message_set, st)
                             EXCEPT !.malformed = FirstBad(data), !.honest = honest])
                    /\ IF parsed.raised
                       THEN /\ Ends("error", "parse")
                            /\ UNCHANGED <<messages, groups, faithful, start>>
                       ELSE /\ messages' = parsed.messages
                            /\ groups' = GroupBy(parsed.messages)
                            /\ faithful' = (faithful /\ honest)
                            /\ Advance(groups')
    /\ UNCHANGED <<archive_mailboxes, config, mailbox, message_uids, creates, store,
                   move_count>>

\* IndexFound that looks at the first entry of the list only.
IndexFoundFirstOnly(mailboxes, mailbox_name) ==
    mailboxes # <<>> /\ mailboxes[1] = mailbox_name

\* self.archive_mailboxes.index(archive_mailbox) does not raise ValueError.
IndexFound(mailboxes, mailbox_name) == mailbox_name \in Range(mailboxes)

\* create_archive_mailbox that registers the name only after a create that
\* succeeded.
create_archive_mailbox_if_ok(mailboxes, mailbox_name, st) ==
    IF st = "OK" THEN Append(mailboxes, mailbox_name) ELSE mailboxes

\* create_archive_mailbox once connection.create has returned status st.
create_archive_mailbox(mailboxes, mailbox_name, st) == Append(mailboxes, mailbox_name)

\* archive_messages for the next group of the batch.
ArchiveMessages ==
    /\ pc = "archive"
    /\ groups # <<>>
    /\ LET message_uid_row == Head(groups).uids
           archive_mailbox == Head(groups).mailbox
           message_set == build_message_set(message_uid_row)
           known == IndexFound(archive_mailboxes, archive_mailbox)
           create(st) == Call("create", quote_mailbox(archive_mailbox), <<>>, <<>>, st)
           move(st) == Call("move", quote_mailbox(archive_mailbox), message_uid_row,
                            message_set, st)
       IN
       \E cst \in Statuses :
        /\ known => cst = "OK"
        /\ creates' = IF known THEN creates
                      ELSE Append(creates, [name |-> archive_mailbox, raised |-> cst = "EXC"])
        /\ IF ~known /\ cst = "EXC"
           THEN /\ log' = Append(log, create(cst))
                /\ Ends("error", "create raised")
                /\ UNCHANGED <<archive_mailboxes, groups, store, move_count, start,
                               msgset_in, msgset_out>>
           ELSE /\ archive_mailboxes' =
                     IF known THEN archive_mailboxes
                     ELSE create_archive_mailbox(archive_mailboxes, archive_mailbox, cst)
                /\ msgset_in' = message_uid_row
                /\ msgset_out' = message_set
                /\ \E mst \in Replies :
                    /\ log' = (IF known THEN log ELSE Append(log, create(cst)))
                                \o <<move(mst)>>
                    /\ IF ~MoveOK(mst)
                       THEN /\ Ends("error", "move")
                            /\ UNCHANGED <<groups, store, move_count, start>>
                       ELSE /\ store' = [store EXCEPT ![mailbox] = @ \ Expand(message_set)]
                            /\ move_count' =
                                 [move_count EXCEPT ![mailbox] =
                                    [u \in UIDs |-> IF u \in Expand(message_set)
                                                    THEN @[u] + 1 ELSE @[u]]]
                            /\ groups' = Tail(groups)
                            /\ Advance(groups')
    /\ UNCHANGED <<config, mailbox, message_uids, messages, faithful>>

Next ==
    \/ \E mb \in Mailboxes : Select(mb)
    \/ Search
    \/ Fetch
    \/ ArchiveMessages

Spec == Init /\ [][Next]_vars

\* ------------------------------------------- build_message_set on its own
RECURSIVE Ascending(_)
\* The elements of a set of integers in ascending order.
Ascending(S) ==
    IF S = {} THEN <<>>
    ELSE LET m == CHOOSE x \in S : \A y \in S : x <= y
         IN <<m>> \o Ascending(S \ {m})

\* A freshly constructed instance and one identifier sequence, empty or strictly
\* ascending, about to be handed to build_message_set.
InitCodec ==
    /\ listed = <<>>
    /\ archive_mailboxes = get_mailboxes_matching(listed)
    /\ max_messages = 3
    /\ max_age = 365
    /\ now = Now0
    /\ pc = "build_message_set"
    /\ mailbox = <<>>
    /\ message_uids = <<>>
    /\ start = 0
    /\ messages = <<>>
    /\ groups = <<>>
    /\ result = "none"
    /\ err = "none"
    /\ log = <<>>
    /\ history = <<>>
    /\ creates = <<>>
    /\ store = [mb \in Mailboxes |-> UIDs]
    /\ move_count = [mb \in Mailboxes |-> [u \in UIDs |-> 0]]
    /\ faithful = TRUE
    /\ msgset_in \in {Ascending(S) : S \in SUBSET (1..MaxCodecUid)}
    /\ msgset_out = <<>>
    /\ named_date = 0
    /\ named_mailbox = <<>>
    /\ named_out = <<>>

\* A call of build_message_set(msgset_in).
BuildMessageSet ==
    /\ pc = "build_message_set"
    /\ msgset_out' = build_message_set(msgset_in)
    /\ pc' = "returned"
    /\ UNCHANGED <<archive_mailboxes, config, mailbox, message_uids, start, messages,
                   groups, result, err, log, history, creates, store, move_count,
                   faithful, msgset_in>>

NextCodec == BuildMessageSet

SpecCodec == InitCodec /\ [][NextCodec]_vars

\* ------------------------------------------- build_archive_mailbox on its own
\* Tokens of the mailbox names handed to build_archive_mailbox.
NameTokens == {"INBOX", ".", "Foo", "Sent", "ES"}

\* The names: INBOX, INBOX.Foo, Sent, Foo.INBOX, INBOXES, INBOX.INBOX, ...
NamedMailboxes == UNION {[1..n -> NameTokens] : n \in 1..MaxNameLen}

\* Dates in 2022, 2023 (first and last day) and 2024.
NamedDates == {729, 730, 1094, 1095}

\* A freshly constructed instance, and a date and a mailbox name about to be
\* handed to build_archive_mailbox.
InitNamer ==
    /\ listed = <<>>
    /\ archive_mailboxes = get_mailboxes_matching(listed)
    /\ max_messages = 3
    /\ max_age = 365
    /\ now = Now0
    /\ pc = "build_archive_mailbox"
    /\ mailbox = <<>>
    /\ message_uids = <<>>
    /\ start = 0
    /\ messages = <<>>
    /\ groups = <<>>
    /\ result = "none"
    /\ err = "none"
    /\ log = <<>>
    /\ history = <<>>
    /\ creates = <<>>
    /\ store = [mb \in Mailboxes |-> UIDs]
    /\ move_count = [mb \in Mailboxes |-> [u \in UIDs |-> 0]]
    /\ faithful = TRUE
    /\ msgset_in = <<>>
    /\ msgset_out = <<>>
    /\ named_date \in NamedDates
    /\ named_mailbox \in NamedMailboxes
    /\ named_out = <<>>

\* A call of build_archive_mailbox(named_date, named_mailbox).
BuildArchiveMailbox ==
    /\ pc = "build_archive_mailbox"
    /\ named_out' = build_archive_mailbox(named_date, named_mailbox)
    /\ pc' = "returned"
    /\ UNCHANGED <<archive_mailboxes, max_messages, max_age, now, listed, mailbox,
                   message_uids, start, messages, groups, result, err, log, history,
                   creates, store, move_count, faithful, msgset_in, msgset_out,
                   named_date, named_mailbox>>

NextNamer == BuildArchiveMailbox

SpecNamer == InitNamer /\ [][NextNamer]_vars

\* ============================================================== the claims

\* C1 (as stated): every select in the log was sent with the read-only
\* argument false, so the source mailbox is opened read-write.
C1_SelectReadWrite ==
    \A i \in 1..Len(log) : log[i].op = "select" => log[i].readonly = FALSE

\* C2 (as stated): a create request for a missing archive mailbox that returns a
\* non-success status ends archive_mailbox in an error, is the last call of the
\* invocation (no move follows), and leaves the name out of archive_mailboxes.
C2_CreateFailurePropagates ==
    \A i \in 1..Len(log) :
        (log[i].op = "create" /\ log[i].status # "OK") =>
            /\ pc = "idle" /\ result = "error"
            /\ i = Len(log)
            /\ Strip(log[i].name, "\"") \notin Range(archive_mailboxes)

\* Positions where a maximal run of consecutive integers starts in s.
RunStarts(s) == {i \in 1..Len(s) : i = 1 \/ s[i] # s[i - 1] + 1}

\* Last position of the run of consecutive integers that starts at i.
RunEnd(s, i) ==
    CHOOSE j \in i..Len(s) :
        /\ \A k \in (i + 1)..j : s[k] = s[k - 1] + 1
        /\ (j = Len(s) \/ s[j + 1] # s[j] + 1)

\* The text the contract asks for: first:last for a run, the bare integer for a
\* singleton, joined by commas in input order.
ContractText(s) ==
    LET at == Ascending(RunStarts(s)) IN
    Join(<<",">>,
         [k \in 1..Len(at) |->
            IF RunEnd(s, at[k]) = at[k] THEN Str(s[at[k]])
            ELSE Str(s[at[k]]) \o <<":">> \o Str(s[RunEnd(s, at[k])])])

\* C3: for a non-empty strictly ascending sequence, build_message_set returns
\* the text of its maximal runs, and expanding that text on commas and colons
\* gives back exactly the input set.
C3_MessageSetRoundTrip ==
    (pc = "returned" /\ msgset_in # <<>>) =>
        /\ msgset_out = ContractText(msgset_in)
        /\ Expand(msgset_out) = Range(msgset_in)

\* C3 witness: [1,2,3,5,7,8,9] was encoded as "1:3,5,7:9".
C3_Witness ==
    /\ pc = "returned"
    /\ msgset_in = <<1, 2, 3, 5, 7, 8, 9>>
    /\ msgset_out = <<"1", ":", "3", ",", "5", ",", "7", ":", "9">>

\* Position of the last fetch in the log, 0 when there is none.
LastFetch ==
    IF \E i \in 1..Len(log) : log[i].op = "fetch"
    THEN CHOOSE i \in 1..Len(log) :
             log[i].op = "fetch" /\ \A j \in (i + 1)..Len(log) : log[j].op # "fetch"
    ELSE 0

IsMove(c) == c.op = "move"

\* The moves issued since the last fetch.
BatchMoves == SelectSeq(SubSeq(log, LastFetch + 1, Len(log)), IsMove)

\* Positions where the target mailbox differs from the preceding message's.
TargetStarts(msgs) ==
    {i \in 1..Len(msgs) : i = 1 \/ msgs[i].mailbox # msgs[i - 1].mailbox}

\* The maximal contiguous runs of messages with one target, in fetched order.
TargetRuns(msgs) ==
    LET at == Ascending(TargetStarts(msgs)) IN
    [k \in 1..Len(at) |->
        LET to == IF k = Len(at) THEN Len(msgs) ELSE at[k + 1] - 1 IN
        [mailbox |-> msgs[at[k]].mailbox,
         uids |-> [i \in 1..(to - at[k] + 1) |-> msgs[at[k] + i - 1].uid]]]

\* The last fetch returned and every line of it was parsed.
BatchParsed ==
    /\ LastFetch > 0
    /\ log[LastFetch].status = "OK"
    /\ log[LastFetch].malformed = 0

\* The batch of the last fetch has been worked through without an error.
BatchDone == BatchParsed /\ (pc = "fetch" \/ (pc = "idle" /\ result = "ok"))

\* C4: the moves of a batch are, in order, one per maximal contiguous run of
\* fetched messages with the same target, each to that target and carrying
\* exactly the identifiers of that run; a batch that is worked through has a
\* move for every run, so non-adjacent runs of one target are not merged.
C4_OneMovePerRun ==
    BatchParsed =>
        LET runs == TargetRuns(messages)
            moves == BatchMoves
        IN /\ Len(moves) <= Len(runs)
           /\ \A k \in 1..Len(moves) :
                /\ moves[k].name = quote_mailbox(runs[k].mailbox)
                /\ moves[k].uids = runs[k].uids
                /\ Expand(moves[k].set) = Range(runs[k].uids)
           /\ BatchDone => Len(moves) = Len(runs)

\* C4 witness: a batch fetched with targets A, B, A ended with three moves.
C4_Witness ==
    /\ BatchDone
    /\ Len(messages) = 3
    /\ messages[1].mailbox = messages[3].mailbox
    /\ messages[1].mailbox # messages[2].mailbox
    /\ Len(BatchMoves) = 3

\* The search of the current invocation returned with a success status.
SearchReturned == Len(log) >= 2 /\ log[2].op = "search" /\ log[2].status = "OK"

\* C5 (as stated): once the search has returned, a message of the selected
\* mailbox whose internal date is exactly max_age + 1 days before the snapshot
\* is among the identifiers found, and one of max_age days is not.
C5_BoundaryDayIncluded ==
    SearchReturned =>
        \A u \in store[mailbox] :
            /\ now.day - InternalDate(mailbox, u) = max_age + 1
                   => u \in Range(message_uids)
            /\ now.day - InternalDate(mailbox, u) = max_age
                   => u \notin Range(message_uids)

StrictlyAscending(s) == \A i \in 1..(Len(s) - 1) : s[i] < s[i + 1]

\* C6 (as stated): every identifier sequence handed to build_message_set, for a
\* fetch or for a move, is strictly ascending, in whatever order the server
\* returns the lines of the requested messages.
C6_SetsStrictlyAscending ==
    faithful =>
        /\ StrictlyAscending(msgset_in)
        /\ \A i \in 1..Len(log) :
               log[i].op \in {"fetch", "move"} => StrictlyAscending(log[i].uids)

\* C7: a fetch whose response holds a line that does not match the pattern is
\* the last call of the invocation, which ends in the parse error: no create
\* and no move follows it, and the successful moves of the batches before it
\* stay done (their messages are gone from the source mailbox).
C7_MalformedLineNoMove ==
    \A i \in 1..Len(log) :
        (log[i].op = "fetch" /\ log[i].malformed > 0) =>
            /\ i = Len(log)
            /\ pc = "idle" /\ result = "error" /\ err = "parse"
            /\ \A j \in 1..(i - 1) :
                   (log[j].op = "move" /\ log[j].status = "OK")
                       => Expand(log[j].set) \cap store[mailbox] = {}

\* C7 witness: the second line of a fetch response was malformed (a well-formed
\* line came before it) and the invocation ended there.
C7_Witness ==
    /\ pc = "idle" /\ err = "parse"
    /\ Last(log).op = "fetch"
    /\ Last(log).malformed = 2

\* The messages of a mailbox older than the cutoff when the instance is built.
Aged(mb) == SearchBefore(UIDs, mb, SearchQuery(now, max_age))

\* C8: (while every parsed fetch response had one line per requested message)
\* no message is carried by two successful moves; the moved messages are gone
\* from the source mailbox and all others are still there; a search finds
\* exactly the aged messages still in the source; and when an invocation ends
\* successfully every aged message of its mailbox has been moved exactly once,
\* over all invocations made so far.
C8_ResumeMovesEachOnce ==
    /\ \A mb \in Mailboxes :
           store[mb] = {u \in UIDs : move_count[mb][u] = 0}
    /\ (pc = "fetch" /\ start = 0) =>
           Range(message_uids) = Aged(mailbox) \cap store[mailbox]
    /\ faithful =>
           /\ \A mb \in Mailboxes : \A u \in UIDs : move_count[mb][u] <= 1
           /\ (pc = "idle" /\ result = "ok") =>
                  \A u \in Aged(mailbox) : move_count[mailbox][u] = 1

\* C8 witness: a first invocation on INBOX failed after moving some messages, a
\* second one on INBOX searched only the rest, moved them and ended well.
C8_Witness ==
    /\ faithful
    /\ pc = "idle"
    /\ history = << [mailbox |-> INBOX, result |-> "error"],
                    [mailbox |-> INBOX, result |-> "ok"] >>
    /\ message_uids # <<>>
    /\ Len(message_uids) < Cardinality(Aged(INBOX))
    /\ \A u \in Aged(INBOX) : move_count[INBOX][u] = 1

\* C9: when the search returns no identifiers the invocation ends successfully
\* with select and search as its only calls; so an invocation on a mailbox
\* whose aged messages are all gone issues no fetch, create or move.
C9_EmptySearchNoFurtherCalls ==
    /\ (SearchReturned /\ message_uids = <<>>) =>
           /\ pc = "idle" /\ result = "ok"
           /\ Len(log) = 2
    /\ (SearchReturned /\ Aged(mailbox) \cap store[mailbox] = {}
          /\ \A i \in 1..Len(log) : ~(log[i].op = "move" /\ log[i].status = "OK")) =>
           /\ message_uids = <<>>
           /\ \A i \in 1..Len(log) : log[i].op \in {"select", "search"}

\* C9 witness: a second invocation on a mailbox that the first one emptied of
\* its aged messages ended after select and search.
C9_Witness ==
    /\ Len(history) = 2
    /\ history[1] = [mailbox |-> mailbox, result |-> "ok"]
    /\ history[2] = [mailbox |-> mailbox, result |-> "ok"]
    /\ \E u \in UIDs : move_count[mailbox][u] > 0
    /\ SearchReturned /\ Len(log) = 2 /\ message_uids = <<>>

\* C10 (as stated): no archive mailbox name has two create requests, and no
\* create request is for a name the startup listing returned as selectable.
C10_CreateAtMostOnce ==
    /\ \A i, j \in 1..Len(creates) : creates[i].name = creates[j].name => i = j
    /\ \A i \in 1..Len(creates) :
           creates[i].name \notin Range(get_mailboxes_matching(listed))

\* C10 (amended): a name gets a further create request only when every earlier
\* create request for it raised; a create that returned a status, success or
\* not, is never repeated; and no create request is for a name the startup
\* listing returned as selectable.
C10_CreateOnceUnlessRaised ==
    /\ \A i, j \in 1..Len(creates) :
           (i < j /\ creates[i].name = creates[j].name) => creates[i].raised
    /\ \A i \in 1..Len(creates) :
           creates[i].name \notin Range(get_mailboxes_matching(listed))

\* C10 witness: a create of an earlier invocation returned, and the current
\* invocation moved messages to that mailbox without a create.
C10_Witness ==
    /\ Len(history) >= 1
    /\ \E i \in 1..Len(log) :
           /\ log[i].op = "move"
           /\ \A j \in 1..Len(log) : log[j].op # "create"
           /\ \E k \in 1..Len(creates) :
                  /\ ~creates[k].raised
                  /\ quote_mailbox(creates[k].name) = log[i].name

IsFetch(c) == c.op = "fetch"

\* The fetch requests of the invocation, in the order issued.
FetchCalls == SelectSeq(log, IsFetch)

RECURSIVE Concat(_)
\* The sequences of seqs, one after the other.
Concat(seqs) == IF seqs = <<>> THEN <<>> ELSE Head(seqs) \o Concat(Tail(seqs))

\* The identifier lists of the fetch requests, one after the other.
Fetched == Concat([k \in 1..Len(FetchCalls) |-> FetchCalls[k].uids])

\* C11: the identifier lists of the fetch requests are consecutive slices of
\* the sorted search result: none is empty or longer than max_messages, each
\* one that another follows has exactly max_messages, together they are a
\* prefix of the search result without gap or overlap, and the whole of it
\* once the invocation has ended in success.
C11_FetchesAreConsecutiveSlices ==
    SearchReturned =>
        /\ StrictlyAscending(message_uids)
        /\ \A k \in 1..Len(FetchCalls) :
              /\ Len(FetchCalls[k].uids) \in 1..max_messages
              /\ k < Len(FetchCalls) => Len(FetchCalls[k].uids) = max_messages
        /\ Len(Fetched) <= Len(message_uids)
        /\ Fetched = SubSeq(message_uids, 1, Len(Fetched))
        /\ (pc = "idle" /\ result = "ok") => Fetched = message_uids

\* An invocation that ended in success after a full batch and a shorter last
\* one.
C11_Witness ==
    /\ pc = "idle" /\ result = "ok"
    /\ Len(FetchCalls) = 2
    /\ Len(FetchCalls[1].uids) = max_messages
    /\ Len(FetchCalls[2].uids) < max_messages
    /\ Fetched = message_uids

\* The name the contract asks for: root, ".", the year in decimal, "." and the
\* source name, with both tokens of every "." that an "INBOX" follows left out.
ContractName(date, mb) ==
    LET s == archive_mailbox_name \o <<".">> \o Str(YearOf(date)) \o <<".">> \o mb
        at == {i \in 1..(Len(s) - 1) : s[i] = "." /\ s[i + 1] = "INBOX"}
        keep == Ascending({i \in 1..Len(s) : i \notin at /\ (i - 1) \notin at})
    IN [k \in 1..Len(keep) |-> s[keep[k]]]

\* The text "Archives.2023".
Archives2023 == <<"Archives", ".", "2", "0", "2", "3">>

\* C12: build_archive_mailbox(date, mailbox) is the root name, ".", the year of
\* the date, "." and the mailbox name with every ".INBOX" taken out of that
\* text; for a date in 2023, INBOX gives Archives.2023, INBOX.Foo gives
\* Archives.2023.Foo and Sent gives Archives.2023.Sent.
C12_ArchiveMailboxName ==
    pc = "returned" =>
        /\ named_out = ContractName(named_date, named_mailbox)
        /\ YearOf(named_date) = 2023 =>
              /\ named_mailbox = INBOX => named_out = Archives2023
              /\ named_mailbox = <<"INBOX", ".", "Foo">> =>
                    named_out = Archives2023 \o <<".", "Foo">>
              /\ named_mailbox = Sent => named_out = Archives2023 \o <<".", "Sent">>

\* The name built for INBOX.Foo and the last day of 2023.
C12_Witness ==
    /\ pc = "returned"
    /\ named_date = 1094
    /\ named_mailbox = <<"INBOX", ".", "Foo">>
    /\ named_out = Archives2023 \o <<".", "Foo">>

\* The names the startup listing returned with the Noselect flag.
NoselectListed ==
    {Strip(listed[i].name, "\"") : i \in {j \in 1..Len(listed) : "Noselect" \in listed[j].flags}}

\* The names for which a create request has returned a status.
Created == {creates[k].name : k \in {j \in 1..Len(creates) : ~creates[j].raised}}

SetTokens == {",", ":"} \cup Range(Digits)

\* s is a string of message set characters, the empty string included.
IsSetText(s) == Range(s) \subseteq SetTokens

\* C14: build_message_set called with an empty sequence ends in an error: it
\* returns no string, neither the empty one nor any other.
C14_EmptyInputRaises ==
    (pc = "returned" /\ msgset_in = <<>>) =>
        msgset_out = TypeError /\ ~IsSetText(msgset_out)

\* build_message_set has been called with the empty sequence and has raised.
C14_Witness == pc = "returned" /\ msgset_in = <<>> /\ msgset_out = TypeError

\* The call returned with success; for a fetch, all its lines were parsed too.
Returned(c) == c.status = "OK" /\ (c.op = "fetch" => c.malformed = 0)

\* C15: the requests of one invocation are a select, then a search, then
\* batches, each one fetch followed by its moves, each move with at most one
\* create right before it and for the same mailbox: the search comes only
\* after a select that succeeded, a fetch only after a search that succeeded
\* and after the moves of the batch before it, and a create or a move only
\* after the fetch of its batch returned (what precedes it is that fetch or a
\* request that itself follows it).
C15_CallOrder ==
    /\ log # <<>> => log[1].op = "select"
    /\ \A i \in 2..Len(log) :
        LET c == log[i]
            p == log[i - 1]
        IN
        /\ c.op \in {"search", "fetch", "create", "move"}
        /\ c.op = "search" => i = 2 /\ p.op = "select" /\ Returned(p)
        /\ c.op \in {"fetch", "create", "move"} =>
              log[2].op = "search" /\ Returned(log[2])
        /\ c.op = "fetch" => p.op \in {"search", "move"} /\ Returned(p)
        /\ c.op = "create" => p.op \in {"fetch", "move"} /\ Returned(p)
        /\ c.op = "move" =>
              \/ p.op \in {"fetch", "move"} /\ Returned(p)
              \/ p.op = "create" /\ p.status # "EXC" /\ p.name = c.name
        /\ p.op = "create" => c.op = "move"

\* An invocation of two batches, the first with a create before its move.
C15_Witness ==
    /\ Len(FetchCalls) = 2
    /\ Len(log) >= 7
    /\ log[3].op = "fetch" /\ log[4].op = "create" /\ log[5].op = "move"
    /\ log[Len(log)].op = "move"
    /\ pc = "idle" /\ result = "ok"

\* The names archive_mailboxes can hold: those the startup listing returned as
\* selectable and those a create request has returned for.
Registered == Range(get_mailboxes_matching(listed)) \cup Created

\* C16: the target of every move is in archive_mailboxes when the move is
\* sent: archive_mailboxes holds the names listed as selectable at startup and
\* those a create request has returned for, the target of a move is one of
\* them, and a create request of the invocation is directly followed by the
\* move to the mailbox it names and never comes after a move to it.
C16_TargetKnownBeforeMove ==
    /\ Range(archive_mailboxes) = Registered
    /\ \A i \in 1..Len(log) :
        /\ log[i].op = "move" =>
              /\ \E k \in 1..Len(archive_mailboxes) :
                    log[i].name = quote_mailbox(archive_mailboxes[k])
              /\ (\E j \in 1..Len(log) : log[j].op = "create" /\ log[j].name = log[i].name)
                   => \E j \in 1..(i - 1) :
                          /\ log[j].op = "create"
                          /\ log[j].status # "EXC"
                          /\ log[j].name = log[i].name
        /\ log[i].op = "create" =>
              /\ \A j \in 1..(i - 1) : log[j].op = "move" => log[j].name # log[i].name
              /\ i < Len(log) => log[i + 1].op = "move" /\ log[i + 1].name = log[i].name

\* A move to a mailbox that was not in archive_mailboxes has been sent right
\* after the create request for it returned.
C16_Witness ==
    \E i \in 2..Len(log) :
        /\ log[i].op = "move"
        /\ log[i - 1].op = "create"
        /\ log[i - 1].name = log[i].name
        /\ Strip(log[i].name, "\"") \notin Range(get_mailboxes_matching(listed))
        /\ Strip(log[i].name, "\"") \in Range(archive_mailboxes)

\* C17: a move that returns a status other than success ends archive_mailbox in
\* an error at once: it is the last request of the invocation, so the move is
\* not sent again and no fetch, create or move follows it, and the invocation
\* is over with the error of the move as its outcome.
C17_FailedMoveEnds ==
    \A i \in 1..Len(log) :
        (log[i].op = "move" /\ log[i].status # "OK") =>
            /\ i = Len(log)
            /\ pc = "idle"
            /\ result = "error"
            /\ err = "move"
            /\ history # <<>>
            /\ Last(history) = [mailbox |-> mailbox, result |-> "error"]

\* A move failed while another group of its batch and another batch of the
\* search result were still to be worked on.
C17_Witness ==
    /\ log # <<>>
    /\ Last(log).op = "move"
    /\ Last(log).status # "OK"
    /\ Len(groups) >= 2
    /\ start + max_messages < Len(message_uids)
    /\ pc = "idle" /\ result = "error"

\* Position of the last fetch before request i, 0 when there is none.
FetchBefore(i) ==
    IF \E j \in 1..(i - 1) : log[j].op = "fetch"
    THEN CHOOSE j \in 1..(i - 1) :
             log[j].op = "fetch" /\ \A k \in (j + 1)..(i - 1) : log[k].op # "fetch"
    ELSE 0

\* C18: every identifier sent in a move is one of the identifiers the search
\* of the invocation returned, and one of the batch whose fetch preceded the
\* move, whatever identifiers the lines of the fetch response carry.
C18_MovedWereSearched ==
    \A i \in 1..Len(log) :
        log[i].op = "move" =>
            /\ Expand(log[i].set) \subseteq Range(message_uids)
            /\ FetchBefore(i) > 0
            /\ Expand(log[i].set) \subseteq Range(log[FetchBefore(i)].uids)

IsOKMove(c) == c.op = "move" /\ c.status = "OK"

\* The moves of the invocation that succeeded, in the order issued.
Moves == SelectSeq(log, IsOKMove)

\* Every fetch of the invocation returned one well-formed line for each
\* identifier it asked for, and no other line.
HonestFetches == \A k \in 1..Len(FetchCalls) : FetchCalls[k].honest

\* C19: when archive_mailbox has ended in success and every fetch returned one
\* well-formed line per requested identifier, every identifier of the search
\* result was sent in exactly one move: no move of the invocation failed, the
\* sets of the moves are pairwise disjoint and no identifier is twice in one,
\* and together they are the search result.
C19_EachSearchedMovedOnce ==
    (pc = "idle" /\ result = "ok" /\ SearchReturned /\ HonestFetches) =>
        /\ \A i \in 1..Len(log) : log[i].op = "move" => log[i].status = "OK"
        /\ \A i, j \in 1..Len(Moves) :
              i # j => Expand(Moves[i].set) \cap Expand(Moves[j].set) = {}
        /\ \A i \in 1..Len(Moves) :
              /\ Cardinality(Range(Moves[i].uids)) = Len(Moves[i].uids)
              /\ Expand(Moves[i].set) = Range(Moves[i].uids)
        /\ UNION {Expand(Moves[i].set) : i \in 1..Len(Moves)} = Range(message_uids)

\* A successful invocation of two batches and three moves over a search result
\* of all the identifiers of the mailbox.
C19_Witness ==
    /\ pc = "idle" /\ result = "ok"
    /\ SearchReturned /\ HonestFetches
    /\ Len(FetchCalls) = 2
    /\ Len(Moves) = 3
    /\ Range(message_uids) = UIDs

\* The internal dates of the messages on the server.
StoreDates == {InternalDate(mb, u) : mb \in Mailboxes, u \in UIDs}

\* The quoted name the contract asks for, by source mailbox and internal date.
ContractTarget ==
    [mb \in Mailboxes |-> [d \in StoreDates |-> quote_mailbox(ContractName(d, mb))]]

\* C20: every identifier of a move to a mailbox T belongs to a message of the
\* fetch before it whose internal date and source mailbox give the name T, so
\* no move carries messages of two targets; with the server reporting each
\* message's own internal date, T is the archive mailbox of the year of that
\* date for every move of the invocation.
C20_MovedToOwnTarget ==
    /\ BatchParsed =>
          \A i \in 1..Len(BatchMoves) :
              \A u \in Expand(BatchMoves[i].set) \cup Range(BatchMoves[i].uids) :
                  \E k \in 1..Len(messages) :
                      /\ messages[k].uid = u
                      /\ messages[k].date \in StoreDates
                      /\ ContractTarget[mailbox][messages[k].date] = BatchMoves[i].name
    /\ \A i \in 1..Len(log) :
          log[i].op = "move" =>
              \A u \in Range(log[i].uids) :
                  ContractTarget[mailbox][InternalDate(mailbox, u)] = log[i].name

\* A batch whose messages went to two targets, two of them in one move.
C20_Witness ==
    /\ BatchDone
    /\ \E i, j \in 1..Len(BatchMoves) :
           /\ BatchMoves[i].name # BatchMoves[j].name
           /\ Len(BatchMoves[i].uids) = 2
           /\ BatchMoves[i].status = "OK" /\ BatchMoves[j].status = "OK"

====
